---- MODULE Spec2Model ----
(***************************************************************************)
(* AniScript Studio: the App component (project store, creation wizard,   *)
(* script generation), the CharacterManager and Storyboard components and  *)
(* the geminiService calls, as a state machine.                            *)
(*                                                                         *)
(* React state is modelled as the variables below.  An event handler is    *)
(* a closure over the values of the render in which it was created: a      *)
(* synchronous handler reads the current state, while the continuation of  *)
(* an async handler (after its await) still reads the state captured when  *)
(* the handler was started.  Each request in flight therefore carries the  *)
(* captured values it will use on completion.                              *)
(***************************************************************************)
EXTENDS Integers, Sequences, FiniteSets, TLC

\* Number of identifiers crypto.randomUUID() may issue in one run.
MaxIds == 3
\* Number of image-generation requests that may be in flight together.
MaxImageReqs == 2
\* Longest character list an import may build.
MaxChars == 4
\* Number of user events (clicks, edits) in one session.
MaxSteps == 5
\* Longest list handed to a list operation applied on its own.
MaxListLen == 2

\* null / undefined / absent storage item
Null == [null |-> TRUE]
\* Scene.generatedImageUrl when absent (falsy)
NoImage == ""

\* crypto.randomUUID(): the n-th identifier issued, never issued before
uuid(n) == ToString(n)

\* ---- types.ts -----------------------------------------------------------
Char(id, name) == [id |-> id, name |-> name]

\* JSON.parse(INITIAL_CHARACTERS_JSON).characters
INITIAL_CHARACTERS == << Char("char_bella", "Bella"), Char("char_mia", "Mia") >>

\* ---- persistent store ---------------------------------------------------
\* JSON.stringify(projects): the serialized text kept in the storage slot
JSONstringify(ps) == [json |-> ps]
\* JSON.parse(saved)
JSONparse(saved) == saved.json

\* loadProjects given the slot's content
loadProjects(slot) == IF slot # Null THEN JSONparse(slot) ELSE << >>

saveProjectsToStorage_Skip(ps, slot) == slot
\* saveProjectsToStorage: the slot's content after the write
saveProjectsToStorage(ps, slot) == JSONstringify(ps)

\* ---- pure list operations of the handlers -------------------------------
Ids(seq) == { seq[i].id : i \in DOMAIN seq }
UniqueIds(seq) == \A i, j \in DOMAIN seq : seq[i].id = seq[j].id => i = j

\* a nullable array: null, or the array wrapped
Some(list) == [ value |-> list ]

\* handleCreateProject: the Project object it builds
newProject(id, name, idea, custom) ==
    [ id |-> id,
      name |-> IF name # "" THEN name ELSE "Untitled Project",
      storyIdea |-> idea,
      characters |-> IF custom # Null THEN custom.value ELSE INITIAL_CHARACTERS,
      scenes |-> << >> ]

createList_Tail(np, ps) == ps \o << np >>
\* handleCreateProject: [newProject, ...projects]
createList(np, ps) == << np >> \o ps

updateList_Upsert(ps, updated) ==
    IF updated.id \in { ps[i].id : i \in DOMAIN ps }
    THEN [ i \in DOMAIN ps |-> IF ps[i].id = updated.id THEN updated ELSE ps[i] ]
    ELSE ps \o << updated >>
updateList_First(ps, updated) ==
    [ i \in DOMAIN ps |-> IF i = 1 THEN updated ELSE ps[i] ]
\* updateProject: projects.map(p => p.id === updated.id ? updated : p)
updateList(ps, updated) ==
    [ i \in DOMAIN ps |-> IF ps[i].id = updated.id THEN updated ELSE ps[i] ]

deleteList_DropHead(ps, id) == IF ps = << >> THEN ps ELSE Tail(ps)
\* handleDeleteProject: projects.filter(p => p.id !== id)
deleteList(ps, id) == SelectSeq(ps, LAMBDA p : p.id # id)

\* ---- geminiService ------------------------------------------------------
\* A scene record as the generation capability returns it (no identifier)
RawScene(n) ==
    [ sceneNumber |-> n, script |-> "line", visualPrompt |-> "p0", duration |-> "3s" ]

generateStoryScenes_KeepId(parsed, n) ==
    [ i \in DOMAIN parsed |->
        [ f \in DOMAIN parsed[i] \cup { "id", "generatedImageUrl" } |->
            IF f \in DOMAIN parsed[i] THEN parsed[i][f]
            ELSE IF f = "id" THEN uuid(n + i)
            ELSE NoImage ] ]
\* generateStoryScenes, post-processing: parsed.map(item => ({...item, id:
\* crypto.randomUUID()})); n is the number of identifiers issued so far. The
\* optional generatedImageUrl, absent from the result, is held as NoImage.
generateStoryScenes(parsed, n) ==
    [ i \in DOMAIN parsed |->
        [ f \in DOMAIN parsed[i] \cup { "id", "generatedImageUrl" } |->
            IF f = "id" THEN uuid(n + i)
            ELSE IF f \in DOMAIN parsed[i] THEN parsed[i][f]
            ELSE NoImage ] ]

\* generateScenePreview: the data URI built from the returned inline data
generateScenePreview(data) == "data:image/png;base64," \o data

\* how many of the first i records carry no identifier
MissingIds(chars, i) == Cardinality({ j \in 1..i : chars[j].id = "" })

\* generateProjectIdea, post-processing: id: c.id || crypto.randomUUID()
generateProjectIdea(idea, n) ==
    [ idea EXCEPT !.characters =
        [ i \in DOMAIN idea.characters |->
            IF idea.characters[i].id # "" THEN idea.characters[i]
            ELSE [ idea.characters[i] EXCEPT
                     !.id = uuid(n + MissingIds(idea.characters, i)) ] ] ]

\* ---- inputs the environment may supply ---------------------------------
\* text typed into the project-name field
Names == { "", "Test" }
\* text typed into a story-idea field
StoryIdeas == { "", "idea" }
\* text typed into the prompt editor
Prompts == { "p0", "p1" }
\* inline image data the capability may return
ImageData == { "AAAA" }
\* scene lists the capability may return for a script request
ScriptResponses == { << >>, << RawScene(1) >>, << RawScene(2), RawScene(1) >> }
\* project ideas the capability may return for a brainstorm request
IdeaResponses ==
    { [ name |-> "Idea", storyIdea |-> "idea",
        characters |-> << Char("", "Zed"), Char("c1", "Ann") >> ],
      [ name |-> "Idea", storyIdea |-> "idea",
        characters |-> << Char("c1", "Ann"), Char("c1", "Bob") >> ] }
\* texts the user may have in the JSON import box; its initial content is
\* INITIAL_CHARACTERS_JSON
ImportTexts == { "INITIAL_CHARACTERS_JSON", "{ \"characters\": 5 }", "{ oops", "null" }

\* JSON.parse of an import text: ok = FALSE when it throws a SyntaxError,
\* isNull when the value is null (reading its .characters throws a TypeError),
\* isArray when Array.isArray(parsed.characters)
JSONparseText(text) ==
    CASE text = "INITIAL_CHARACTERS_JSON" ->
             [ ok |-> TRUE, isNull |-> FALSE, isArray |-> TRUE,
               characters |-> INITIAL_CHARACTERS ]
      [] text = "{ \"characters\": 5 }" ->
             [ ok |-> TRUE, isNull |-> FALSE, isArray |-> FALSE, characters |-> << >> ]
      [] text = "null" ->
             [ ok |-> TRUE, isNull |-> TRUE, isArray |-> FALSE, characters |-> << >> ]
      [] OTHER ->
             [ ok |-> FALSE, isNull |-> FALSE, isArray |-> FALSE, characters |-> << >> ]

\* projects a previous session may have left in the storage slot
StoredProject ==
    [ id |-> "p0", name |-> "Old", storyIdea |-> "idea",
      characters |-> INITIAL_CHARACTERS,
      scenes |-> << [ id |-> "s0", sceneNumber |-> 1, script |-> "line",
                      visualPrompt |-> "p0", duration |-> "3s",
                      generatedImageUrl |-> NoImage ] >> ]
StoredSlots == { Null, JSONstringify(<< StoredProject >>) }

\* ---- state --------------------------------------------------------------
VARIABLES
    storage,            \* localStorage item 'aniscript_projects'
    apiKey,             \* process.env.API_KEY is set
    loaded,             \* the mount effect has run
    projects, currentProject, view,
    newProjectName, storyIdea, customCharacters,
    isGenerating, isBrainstorming, recommendedIdea,
    scriptReq,          \* handleGenerateScript awaiting: its captured values
    brainstormReq,      \* handleAiBrainstorm awaiting
    error,              \* CharacterManager's error state ("" for null)
    sb,                 \* Storyboard's state: editingSceneId, editPromptValue,
                        \* loadingImages (the scene ids mapped to true), isZipping
    imageReqs,          \* handleGenerateImage calls awaiting, with captured values
    nextId,             \* identifiers issued so far by crypto.randomUUID()
    ev,                 \* the handler that ran last
    steps,              \* user events handled so far
    trip,               \* store round trip: the list before it and its progress
    call,               \* the pure operation applied last: its arguments and result
    deleted             \* identifiers of the projects deleted so far

vars == << storage, apiKey, loaded, projects, currentProject, view,
           newProjectName, storyIdea, customCharacters, isGenerating,
           isBrainstorming, recommendedIdea, scriptReq, brainstormReq, error,
           sb, imageReqs, nextId, ev, steps, trip, call, deleted >>

storeVars  == << projects, storage, currentProject >>
wizardVars == << newProjectName, storyIdea, customCharacters, recommendedIdea >>
scriptVars == << isGenerating, scriptReq >>
brainVars  == << isBrainstorming, brainstormReq >>

Event(op, id) == [ op |-> op, id |-> id ]

\* no pure operation has been applied on its own
NoCall == [ op |-> "none" ]

\* a click or an edit by the user
UserEvent == steps < MaxSteps /\ steps' = steps + 1 /\ UNCHANGED << trip, call >>

\* useState initial values of Storyboard
StoryboardInit ==
    [ editingSceneId |-> "", editPromptValue |-> "", loadingImages |-> { },
      isZipping |-> FALSE ]

\* renderWorkspace shows <Storyboard> only for a project with scenes
StoryboardMounted(v, cp) ==
    /\ v = "workspace"
    /\ cp # Null
    /\ Len(cp.scenes) > 0

\* renderWorkspace shows <CharacterManager> for any current project
ManagerMounted(v, cp) == v = "workspace" /\ cp # Null

Orphaned(reqs) == [ i \in DOMAIN reqs |-> [ reqs[i] EXCEPT !.live = FALSE ] ]

\* The render that follows a handler: component state survives only while
\* the component stays mounted; a request started by an unmounted Storyboard
\* keeps running but its setLoadingImages no longer reaches any component.
Render(sbNext, reqsNext, errorNext) ==
    LET kept == StoryboardMounted(view, currentProject)
                /\ StoryboardMounted(view', currentProject')
    IN  /\ sb' = IF StoryboardMounted(view', currentProject')
                  THEN (IF kept THEN sbNext ELSE StoryboardInit)
                  ELSE StoryboardInit
        /\ imageReqs' = IF kept THEN reqsNext ELSE Orphaned(reqsNext)
        /\ error' = IF ManagerMounted(view, currentProject)
                        /\ ManagerMounted(view', currentProject')
                     THEN errorNext ELSE ""

Init ==
    /\ storage \in StoredSlots
    /\ apiKey \in BOOLEAN
    /\ loaded = FALSE
    /\ projects = << >>
    /\ currentProject = Null
    /\ view = "dashboard"
    /\ newProjectName = ""
    /\ storyIdea = ""
    /\ customCharacters = Null
    /\ isGenerating = FALSE
    /\ isBrainstorming = FALSE
    /\ recommendedIdea = Null
    /\ scriptReq = Null
    /\ brainstormReq = Null
    /\ error = ""
    /\ sb = StoryboardInit
    /\ imageReqs = << >>
    /\ nextId = 0
    /\ ev = Event("mount", "")
    /\ steps = 0
    /\ trip = [ pc |-> "idle", before |-> << >> ]
    /\ call = NoCall
    /\ deleted = { }

\* ---- the project store (App) --------------------------------------------
Store == [ projects |-> projects, storage |-> storage,
           currentProject |-> currentProject ]

SetStore(s) ==
    /\ projects' = s.projects
    /\ storage' = s.storage
    /\ currentProject' = s.currentProject

\* updateProject(updated) as created by a render whose projects were ps
updateProject(ps, slot, updated) ==
    [ projects |-> updateList(ps, updated),
      storage |-> saveProjectsToStorage(updateList(ps, updated), slot),
      currentProject |-> updated ]

\* handleCreateProject: the store after inserting the new project np
createProject(store, np) ==
    [ projects |-> createList(np, store.projects),
      storage |-> saveProjectsToStorage(createList(np, store.projects), store.storage),
      currentProject |-> np ]

deleteProject_KeepSelection(store, id) ==
    [ projects |-> deleteList(store.projects, id),
      storage |-> saveProjectsToStorage(deleteList(store.projects, id), store.storage),
      currentProject |-> store.currentProject ]
\* handleDeleteProject after confirm(): the store without project id
deleteProject(store, id) ==
    [ projects |-> deleteList(store.projects, id),
      storage |-> saveProjectsToStorage(deleteList(store.projects, id), store.storage),
      currentProject |-> IF store.currentProject # Null /\ store.currentProject.id = id
                         THEN Null ELSE store.currentProject ]

\* useEffect(() => setProjects(loadProjects()), [])
LoadProjects ==
    /\ UNCHANGED << steps, trip, call, deleted >>
    /\ ~loaded
    /\ loaded' = TRUE
    /\ projects' = loadProjects(storage)
    /\ ev' = Event("load", "")
    /\ UNCHANGED << storage, currentProject, view, apiKey, nextId >>
    /\ UNCHANGED << wizardVars, scriptVars, brainVars >>
    /\ Render(sb, imageReqs, error)

\* "New Project" button of the dashboard
OpenCreate ==
    /\ loaded
    /\ UserEvent
    /\ UNCHANGED deleted
    /\ view = "dashboard"
    /\ view' = "create"
    /\ customCharacters' = Null
    /\ recommendedIdea' = Null
    /\ ev' = Event("openCreate", "")
    /\ UNCHANGED << storeVars, newProjectName, storyIdea, apiKey, loaded, nextId >>
    /\ UNCHANGED << scriptVars, brainVars >>
    /\ Render(sb, imageReqs, error)

\* "Back to Dashboard" of the wizard, back arrow of the workspace
BackToDashboard ==
    /\ loaded
    /\ UserEvent
    /\ UNCHANGED deleted
    /\ view \in { "create", "workspace" }
    /\ view' = "dashboard"
    /\ ev' = Event("back", "")
    /\ UNCHANGED << storeVars, wizardVars, scriptVars, brainVars, apiKey, loaded, nextId >>
    /\ Render(sb, imageReqs, error)

\* onChange of the project-name input
SetNewProjectName(n) ==
    /\ loaded
    /\ UserEvent
    /\ UNCHANGED deleted
    /\ view = "create"
    /\ n # newProjectName
    /\ newProjectName' = n
    /\ ev' = Event("setName", "")
    /\ UNCHANGED << storeVars, view, storyIdea, customCharacters, recommendedIdea >>
    /\ UNCHANGED << scriptVars, brainVars, apiKey, loaded, nextId >>
    /\ Render(sb, imageReqs, error)

\* onChange of the wizard's story-idea textarea
SetStoryIdea(t) ==
    /\ loaded
    /\ UserEvent
    /\ UNCHANGED deleted
    /\ view = "create"
    /\ t # storyIdea
    /\ storyIdea' = t
    /\ ev' = Event("setIdea", "")
    /\ UNCHANGED << storeVars, view, newProjectName, customCharacters, recommendedIdea >>
    /\ UNCHANGED << scriptVars, brainVars, apiKey, loaded, nextId >>
    /\ Render(sb, imageReqs, error)

handleCreateProject ==
    /\ loaded
    /\ UserEvent
    /\ UNCHANGED deleted
    /\ view = "create"
    /\ newProjectName # ""                       \* disabled={!newProjectName}
    /\ nextId < MaxIds
    /\ LET np == newProject(uuid(nextId + 1), newProjectName, storyIdea,
                            customCharacters)
       IN  /\ SetStore(createProject(Store, np))
           /\ ev' = Event("create", np.id)
    /\ view' = "workspace"
    /\ nextId' = nextId + 1
    /\ newProjectName' = ""
    /\ storyIdea' = ""
    /\ customCharacters' = Null
    /\ recommendedIdea' = Null
    /\ UNCHANGED << scriptVars, brainVars, apiKey, loaded >>
    /\ Render(sb, imageReqs, error)

\* ProjectCard onSelect
SelectProject(i) ==
    /\ loaded
    /\ UserEvent
    /\ UNCHANGED deleted
    /\ view = "dashboard"
    /\ i \in DOMAIN projects
    /\ currentProject' = projects[i]
    /\ view' = "workspace"
    /\ ev' = Event("select", projects[i].id)
    /\ UNCHANGED << projects, storage, wizardVars, scriptVars, brainVars >>
    /\ UNCHANGED << apiKey, loaded, nextId >>
    /\ Render(sb, imageReqs, error)

\* ProjectCard onDelete; confirmed is the answer to confirm()
handleDeleteProject(i, confirmed) ==
    /\ loaded
    /\ UserEvent
    /\ view = "dashboard"
    /\ i \in DOMAIN projects
    /\ ev' = Event(IF confirmed THEN "delete" ELSE "deleteDeclined", projects[i].id)
    /\ IF confirmed
       THEN /\ SetStore(deleteProject(Store, projects[i].id))
            /\ deleted' = deleted \cup { projects[i].id }
            /\ view' = IF currentProject # Null /\ currentProject.id = projects[i].id
                       THEN "dashboard" ELSE view
       ELSE UNCHANGED << storeVars, view, deleted >>
    /\ UNCHANGED << wizardVars, scriptVars, brainVars, apiKey, loaded, nextId >>
    /\ Render(sb, imageReqs, error)

\* onChange of the workspace's Story Plot textarea
EditStoryIdea(t) ==
    /\ loaded
    /\ UserEvent
    /\ UNCHANGED deleted
    /\ ManagerMounted(view, currentProject)
    /\ t # currentProject.storyIdea
    /\ SetStore(updateProject(projects, storage,
                              [ currentProject EXCEPT !.storyIdea = t ]))
    /\ ev' = Event("editIdea", currentProject.id)
    /\ UNCHANGED << view, wizardVars, scriptVars, brainVars, apiKey, loaded, nextId >>
    /\ Render(sb, imageReqs, error)

\* ---- CharacterManager ---------------------------------------------------
importCharacters_Replace(characters, parsed) ==
    SelectSeq(characters, LAMBDA c : c.id \notin Ids(parsed.characters))
        \o parsed.characters
\* handleImportJson: [...characters, ...parsed.characters]
importCharacters(characters, parsed) == characters \o parsed.characters

removeCharacterList_OrLast(characters, id) ==
    IF id \in Ids(characters) \/ characters = << >>
    THEN SelectSeq(characters, LAMBDA c : c.id # id)
    ELSE SubSeq(characters, 1, Len(characters) - 1)
\* removeCharacter: characters.filter(c => c.id !== id)
removeCharacterList(characters, id) == SelectSeq(characters, LAMBDA c : c.id # id)

handleImportJson(text) ==
    /\ loaded
    /\ UserEvent
    /\ UNCHANGED deleted
    /\ ManagerMounted(view, currentProject)
    /\ LET parsed == JSONparseText(text)
       IN  IF ~parsed.ok
           THEN /\ UNCHANGED storeVars
                /\ ev' = Event("importSyntaxError", currentProject.id)
                /\ UNCHANGED << view, wizardVars, scriptVars, brainVars, apiKey, loaded, nextId >>
                /\ Render(sb, imageReqs, "Invalid JSON syntax.")
           ELSE IF parsed.isNull                  \* parsed.characters throws: catch (e)
           THEN /\ UNCHANGED storeVars
                /\ ev' = Event("importTypeError", currentProject.id)
                /\ UNCHANGED << view, wizardVars, scriptVars, brainVars, apiKey, loaded, nextId >>
                /\ Render(sb, imageReqs, "Invalid JSON syntax.")
           ELSE IF parsed.isArray
           THEN /\ Len(currentProject.characters) + Len(parsed.characters) <= MaxChars
                /\ SetStore(updateProject(projects, storage,
                       [ currentProject EXCEPT !.characters =
                           importCharacters(currentProject.characters, parsed) ]))
                /\ ev' = Event("import", currentProject.id)
                /\ UNCHANGED << view, wizardVars, scriptVars, brainVars, apiKey, loaded, nextId >>
                /\ Render(sb, imageReqs, "")
           ELSE /\ UNCHANGED storeVars
                /\ ev' = Event("importNoArray", currentProject.id)
                /\ UNCHANGED << view, wizardVars, scriptVars, brainVars, apiKey, loaded, nextId >>
                /\ Render(sb, imageReqs, "Invalid JSON format: missing 'characters' array.")

\* the trash button of character card i
removeCharacter(i) ==
    /\ loaded
    /\ UserEvent
    /\ UNCHANGED deleted
    /\ ManagerMounted(view, currentProject)
    /\ i \in DOMAIN currentProject.characters
    /\ SetStore(updateProject(projects, storage,
           [ currentProject EXCEPT !.characters =
               removeCharacterList(currentProject.characters,
                                   currentProject.characters[i].id) ]))
    /\ ev' = Event("removeCharacter", currentProject.characters[i].id)
    /\ UNCHANGED << view, wizardVars, scriptVars, brainVars, apiKey, loaded, nextId >>
    /\ Render(sb, imageReqs, error)

\* ---- script generation (App) --------------------------------------------
getClient_NoCheck(key) == TRUE
\* getClient: the call reaches the capability only when the key is set
getClient(key) == key

handleGenerateScriptCatch_EmptyScenes(store) ==
    IF store.currentProject = Null THEN store
    ELSE updateProject(store.projects, store.storage,
                       [ store.currentProject EXCEPT !.scenes = << >> ])
\* catch (e) { alert(...) }: the store after a failed script generation
handleGenerateScriptCatch(store) == store

finallyFlag_OnlyOnSuccess(ok) == ~ok
\* finally { setIsGenerating(false) } and its siblings: the flag's new value
finallyFlag(ok) == FALSE

\* click on "Generate Scenes" / "Regenerate Scenes"
handleGenerateScript ==
    /\ loaded
    /\ UserEvent
    /\ UNCHANGED deleted
    /\ view = "workspace"
    /\ currentProject # Null
    /\ ~isGenerating                              \* disabled={isGenerating || ...}
    /\ currentProject.storyIdea # ""
    /\ isGenerating' = TRUE
    /\ scriptReq' = [ projects |-> projects, currentProject |-> currentProject,
                      sent |-> getClient(apiKey) ]
    /\ ev' = Event("scriptStart", currentProject.id)
    /\ UNCHANGED << storeVars, view, wizardVars, brainVars, apiKey, loaded, nextId >>
    /\ Render(sb, imageReqs, error)

\* generateStoryScenes resolves with the scenes parsed from the response
ScriptFulfilled(parsed) ==
    /\ UNCHANGED << steps, trip, call, deleted >>
    /\ scriptReq # Null
    /\ scriptReq.sent
    /\ nextId + Len(parsed) <= MaxIds
    /\ SetStore(updateProject(scriptReq.projects, storage,
           [ scriptReq.currentProject EXCEPT
               !.scenes = generateStoryScenes(parsed, nextId) ]))
    /\ nextId' = nextId + Len(parsed)
    /\ isGenerating' = finallyFlag(TRUE)
    /\ scriptReq' = Null
    /\ ev' = Event("scriptDone", scriptReq.currentProject.id)
    /\ UNCHANGED << view, wizardVars, brainVars, apiKey, loaded >>
    /\ Render(sb, imageReqs, error)

\* generateStoryScenes rejects: no key, upstream error, unparseable response
ScriptRejected ==
    /\ UNCHANGED << steps, trip, call, deleted >>
    /\ scriptReq # Null
    /\ SetStore(handleGenerateScriptCatch(Store))
    /\ isGenerating' = finallyFlag(FALSE)
    /\ scriptReq' = Null
    /\ ev' = Event("scriptFailed", scriptReq.currentProject.id)
    /\ UNCHANGED << view, wizardVars, brainVars, apiKey, loaded, nextId >>
    /\ Render(sb, imageReqs, error)

\* ---- brainstorm (App) ---------------------------------------------------
\* click on "Recommend Idea"
handleAiBrainstorm ==
    /\ loaded
    /\ UserEvent
    /\ UNCHANGED deleted
    /\ view = "create"
    /\ ~isBrainstorming                           \* disabled={isBrainstorming}
    /\ isBrainstorming' = TRUE
    /\ recommendedIdea' = Null
    /\ brainstormReq' = [ sent |-> getClient(apiKey) ]
    /\ ev' = Event("brainstormStart", "")
    /\ UNCHANGED << storeVars, view, newProjectName, storyIdea, customCharacters >>
    /\ UNCHANGED << scriptVars, apiKey, loaded, nextId >>
    /\ Render(sb, imageReqs, error)

\* generateProjectIdea resolves
BrainstormFulfilled(idea) ==
    /\ UNCHANGED << steps, trip, call, deleted >>
    /\ brainstormReq # Null
    /\ brainstormReq.sent
    /\ nextId + MissingIds(idea.characters, Len(idea.characters)) <= MaxIds
    /\ recommendedIdea' = generateProjectIdea(idea, nextId)
    /\ nextId' = nextId + MissingIds(idea.characters, Len(idea.characters))
    /\ isBrainstorming' = finallyFlag(TRUE)
    /\ brainstormReq' = Null
    /\ ev' = Event("brainstormDone", "")
    /\ UNCHANGED << storeVars, view, newProjectName, storyIdea, customCharacters >>
    /\ UNCHANGED << scriptVars, apiKey, loaded >>
    /\ Render(sb, imageReqs, error)

\* generateProjectIdea rejects
BrainstormRejected ==
    /\ UNCHANGED << steps, trip, call, deleted >>
    /\ brainstormReq # Null
    /\ isBrainstorming' = finallyFlag(FALSE)
    /\ brainstormReq' = Null
    /\ ev' = Event("brainstormFailed", "")
    /\ UNCHANGED << storeVars, view, wizardVars, scriptVars, apiKey, loaded, nextId >>
    /\ Render(sb, imageReqs, error)

\* click on "Use This"
applyRecommendedIdea ==
    /\ loaded
    /\ UserEvent
    /\ UNCHANGED deleted
    /\ view = "create"
    /\ recommendedIdea # Null
    /\ newProjectName' = recommendedIdea.name
    /\ storyIdea' = recommendedIdea.storyIdea
    /\ customCharacters' = Some(recommendedIdea.characters)
    /\ ev' = Event("applyIdea", "")
    /\ UNCHANGED << storeVars, view, recommendedIdea, scriptVars, brainVars >>
    /\ UNCHANGED << apiKey, loaded, nextId >>
    /\ Render(sb, imageReqs, error)

\* ---- Storyboard ---------------------------------------------------------
\* handleSavePrompt: scenes.map(s => s.id === sceneId ? {...s, visualPrompt} : s)
editScenePrompt(scenes, sceneId, text) ==
    [ i \in DOMAIN scenes |->
        IF scenes[i].id = sceneId THEN [ scenes[i] EXCEPT !.visualPrompt = text ]
        ELSE scenes[i] ]

\* handleGenerateImage: scenes.map(s => s.id === scene.id ? {...s, generatedImageUrl} : s)
setSceneImage(scenes, sceneId, url) ==
    [ i \in DOMAIN scenes |->
        IF scenes[i].id = sceneId THEN [ scenes[i] EXCEPT !.generatedImageUrl = url ]
        ELSE scenes[i] ]

\* String(n).padStart(3, '0') of a decimal numeral
padStart3(numeral) ==
    IF Len(numeral) >= 3 THEN numeral
    ELSE IF Len(numeral) = 2 THEN "0" \o numeral
    ELSE IF Len(numeral) = 1 THEN "00" \o numeral
    ELSE "000"

\* handleDownloadAssets: `scene_${String(scene.sceneNumber).padStart(3, '0')}.png`
imageName(scene) == "scene_" \o padStart3(ToString(scene.sceneNumber)) \o ".png"

\* scene.generatedImageUrl.split(',')[1] of a data URI built by
\* generateScenePreview: the text after its comma
base64Data(url) ==
    CHOOSE d \in { "AAAA", "BBBB", "" } : url = generateScenePreview(d)

\* the block handleDownloadAssets appends to scriptContent for one scene
manifestBlock(scene) ==
    [ sceneNumber |-> scene.sceneNumber, duration |-> scene.duration,
      script |-> scene.script, visualPrompt |-> scene.visualPrompt,
      imageFile |-> IF scene.generatedImageUrl # NoImage THEN imageName(scene)
                    ELSE "[Not Generated Yet]" ]

\* new JSZip(): no entries
emptyZip == [ n \in { } |-> Null ]
\* zip.file(name, content): the entry of that name is set, replacing an
\* earlier one
zipFile(zip, name, content) ==
    [ n \in DOMAIN zip \cup { name } |-> IF n = name THEN content ELSE zip[n] ]

\* project.scenes.forEach(...): the zip after the scenes from the i-th on
RECURSIVE zipScenes(_, _, _)
zipScenes(zip, scenes, i) ==
    IF i > Len(scenes) THEN zip
    ELSE LET scene == scenes[i]
             added == IF scene.generatedImageUrl # NoImage
                         /\ base64Data(scene.generatedImageUrl) # ""
                      THEN zipFile(zip, imageName(scene),
                                   [ base64 |-> base64Data(scene.generatedImageUrl) ])
                      ELSE zip
         IN  zipScenes(added, scenes, i + 1)

\* handleDownloadAssets: the archive it builds for a project
exportAssets(project) ==
    zipFile(zipScenes(emptyZip, project.scenes, 1), "script_and_prompts.txt",
            [ text |-> [ project |-> project.name, storyIdea |-> project.storyIdea,
                         scenes |-> [ i \in DOMAIN project.scenes |->
                                        manifestBlock(project.scenes[i]) ] ] ])

\* catch (error) { alert(...) }: the store after a failed image generation
handleGenerateImageCatch(store) == store

\* a sequence without its k-th element
Without(seq, k) == [ i \in 1..(Len(seq) - 1) |-> IF i < k THEN seq[i] ELSE seq[i + 1] ]

\* click on the prompt or its Edit button of scene i
handleEditClick(i) ==
    /\ loaded
    /\ UserEvent
    /\ UNCHANGED deleted
    /\ StoryboardMounted(view, currentProject)
    /\ i \in DOMAIN currentProject.scenes
    /\ sb.editingSceneId # currentProject.scenes[i].id
    /\ ev' = Event("editClick", currentProject.scenes[i].id)
    /\ UNCHANGED << storeVars, view, wizardVars, scriptVars, brainVars, apiKey, loaded, nextId >>
    /\ Render([ sb EXCEPT !.editingSceneId = currentProject.scenes[i].id,
                          !.editPromptValue = currentProject.scenes[i].visualPrompt ],
              imageReqs, error)

\* onChange of the prompt editor, shown for the scene being edited
SetEditPromptValue(t) ==
    /\ loaded
    /\ UserEvent
    /\ UNCHANGED deleted
    /\ StoryboardMounted(view, currentProject)
    /\ sb.editingSceneId \in Ids(currentProject.scenes)
    /\ t # sb.editPromptValue
    /\ ev' = Event("setPrompt", sb.editingSceneId)
    /\ UNCHANGED << storeVars, view, wizardVars, scriptVars, brainVars, apiKey, loaded, nextId >>
    /\ Render([ sb EXCEPT !.editPromptValue = t ], imageReqs, error)

\* click on Save of the scene being edited
handleSavePrompt(i) ==
    /\ loaded
    /\ UserEvent
    /\ UNCHANGED deleted
    /\ StoryboardMounted(view, currentProject)
    /\ i \in DOMAIN currentProject.scenes
    /\ sb.editingSceneId = currentProject.scenes[i].id
    /\ SetStore(updateProject(projects, storage,
           [ currentProject EXCEPT !.scenes =
               editScenePrompt(currentProject.scenes, currentProject.scenes[i].id,
                               sb.editPromptValue) ]))
    /\ ev' = Event("savePrompt", currentProject.scenes[i].id)
    /\ UNCHANGED << view, wizardVars, scriptVars, brainVars, apiKey, loaded, nextId >>
    /\ Render([ sb EXCEPT !.editingSceneId = "" ], imageReqs, error)

\* scene i shows "Regenerate" over an image, else "Generate Preview" unless
\* loadingImages[scene.id]
CanGenerateImage(scene) ==
    \/ scene.generatedImageUrl # NoImage
    \/ scene.id \notin sb.loadingImages

handleGenerateImage(i) ==
    /\ loaded
    /\ UserEvent
    /\ UNCHANGED deleted
    /\ StoryboardMounted(view, currentProject)
    /\ i \in DOMAIN currentProject.scenes
    /\ CanGenerateImage(currentProject.scenes[i])
    /\ Len(imageReqs) < MaxImageReqs
    /\ ev' = Event("imageStart", currentProject.scenes[i].id)
    /\ UNCHANGED << storeVars, view, wizardVars, scriptVars, brainVars, apiKey, loaded, nextId >>
    /\ Render([ sb EXCEPT !.loadingImages = @ \cup { currentProject.scenes[i].id } ],
              Append(imageReqs,
                     [ scene |-> currentProject.scenes[i].id,
                       project |-> currentProject, projects |-> projects,
                       live |-> TRUE, sent |-> getClient(apiKey) ]),
              error)

\* generateScenePreview of request k resolves with an image
ImageFulfilled(k, data) ==
    /\ UNCHANGED << steps, trip, call, deleted >>
    /\ k \in DOMAIN imageReqs
    /\ imageReqs[k].sent
    /\ LET req == imageReqs[k]
       IN  /\ SetStore(updateProject(req.projects, storage,
                  [ req.project EXCEPT !.scenes =
                      setSceneImage(req.project.scenes, req.scene,
                                    generateScenePreview(data)) ]))
           /\ ev' = Event("imageDone", req.scene)
           /\ UNCHANGED << view, wizardVars, scriptVars, brainVars, apiKey, loaded, nextId >>
           /\ Render(IF req.live /\ ~finallyFlag(TRUE)
                     THEN [ sb EXCEPT !.loadingImages = @ \ { req.scene } ] ELSE sb,
                     Without(imageReqs, k), error)

\* generateScenePreview of request k rejects
ImageRejected(k) ==
    /\ UNCHANGED << steps, trip, call, deleted >>
    /\ k \in DOMAIN imageReqs
    /\ LET req == imageReqs[k]
       IN  /\ SetStore(handleGenerateImageCatch(Store))
           /\ ev' = Event("imageFailed", req.scene)
           /\ UNCHANGED << view, wizardVars, scriptVars, brainVars, apiKey, loaded, nextId >>
           /\ Render(IF req.live /\ ~finallyFlag(FALSE)
                     THEN [ sb EXCEPT !.loadingImages = @ \ { req.scene } ] ELSE sb,
                     Without(imageReqs, k), error)

\* click on "Download Assets"
handleDownloadAssets ==
    /\ loaded
    /\ UserEvent
    /\ UNCHANGED deleted
    /\ StoryboardMounted(view, currentProject)
    /\ ~sb.isZipping                              \* disabled={isZipping || ...}
    /\ ev' = Event("zipStart", currentProject.id)
    /\ UNCHANGED << storeVars, view, wizardVars, scriptVars, brainVars, apiKey, loaded, nextId >>
    /\ Render([ sb EXCEPT !.isZipping = TRUE ], imageReqs, error)

\* zip.generateAsync settles and the finally block runs
DownloadSettled(ok) ==
    /\ UNCHANGED << steps, trip, call, deleted >>
    /\ sb.isZipping
    /\ ev' = Event(IF ok THEN "zipDone" ELSE "zipFailed", "")
    /\ UNCHANGED << storeVars, view, wizardVars, scriptVars, brainVars, apiKey, loaded, nextId >>
    /\ Render([ sb EXCEPT !.isZipping = finallyFlag(ok) ], imageReqs, error)

\* ---- the application ----------------------------------------------------
Next ==
    \/ LoadProjects
    \/ OpenCreate
    \/ BackToDashboard
    \/ \E n \in Names : SetNewProjectName(n)
    \/ \E t \in StoryIdeas : SetStoryIdea(t)
    \/ handleCreateProject
    \/ \E i \in 1..MaxIds + 1 : SelectProject(i)
    \/ \E i \in 1..MaxIds + 1, c \in BOOLEAN : handleDeleteProject(i, c)
    \/ \E t \in StoryIdeas : EditStoryIdea(t)
    \/ \E text \in ImportTexts : handleImportJson(text)
    \/ \E i \in 1..MaxChars : removeCharacter(i)
    \/ handleGenerateScript
    \/ \E parsed \in ScriptResponses : ScriptFulfilled(parsed)
    \/ ScriptRejected
    \/ handleAiBrainstorm
    \/ \E idea \in IdeaResponses : BrainstormFulfilled(idea)
    \/ BrainstormRejected
    \/ applyRecommendedIdea
    \/ \E i \in 1..MaxIds : handleEditClick(i)
    \/ \E t \in Prompts : SetEditPromptValue(t)
    \/ \E i \in 1..MaxIds : handleSavePrompt(i)
    \/ \E i \in 1..MaxIds : handleGenerateImage(i)
    \/ \E k \in 1..MaxImageReqs, data \in ImageData : ImageFulfilled(k, data)
    \/ \E k \in 1..MaxImageReqs : ImageRejected(k)
    \/ handleDownloadAssets
    \/ \E ok \in BOOLEAN : DownloadSettled(ok)

Spec == Init /\ [][Next]_vars

\* ---- the application, every external call returning ----------------------
\* identifiers a scene may carry
SceneIds == { "s0" } \cup { uuid(n) : n \in 1..MaxIds }

ScriptReturns == ScriptRejected \/ \E parsed \in ScriptResponses : ScriptFulfilled(parsed)
BrainstormReturns ==
    BrainstormRejected \/ \E idea \in IdeaResponses : BrainstormFulfilled(idea)
\* a call made by the mounted Storyboard for this scene returns
ImageReturns(scene) ==
    \E k \in 1..MaxImageReqs :
        /\ k \in DOMAIN imageReqs
        /\ imageReqs[k].scene = scene
        /\ imageReqs[k].live
        /\ (ImageRejected(k) \/ \E data \in ImageData : ImageFulfilled(k, data))
DownloadReturns == \E ok \in BOOLEAN : DownloadSettled(ok)

FairSpec ==
    /\ Spec
    /\ WF_vars(ScriptReturns)
    /\ WF_vars(BrainstormReturns)
    /\ \A s \in SceneIds : WF_vars(ImageReturns(s))
    /\ WF_vars(DownloadReturns)

\* ---- the store operations on their own ----------------------------------
\* Projects a store may hold, and the lists built from them
StoreProjects ==
    { StoredProject,
      [ id |-> "p1", name |-> "Test", storyIdea |-> "",
        characters |-> INITIAL_CHARACTERS, scenes |-> << >> ] }
StoreLists ==
    { << >> } \cup { << a >> : a \in StoreProjects }
        \cup { l \in { << a, b >> : a, b \in StoreProjects } : l[1] # l[2] }
\* Arguments of updateProject: an edited project under a known or unknown id
UpdateArgs ==
    { [ id |-> i, name |-> "Edited", storyIdea |-> "new", characters |-> << >>,
        scenes |-> << >> ] : i \in { "p0", "p1", "p9" } }

StoreInit ==
    /\ projects \in StoreLists
    /\ storage \in { JSONstringify(projects) }
                    \cup (IF projects = << >> THEN { Null } ELSE { })
    /\ apiKey = TRUE
    /\ loaded = TRUE
    /\ currentProject = Null
    /\ view = "dashboard"
    /\ newProjectName = ""
    /\ storyIdea = ""
    /\ customCharacters = Null
    /\ isGenerating = FALSE
    /\ isBrainstorming = FALSE
    /\ recommendedIdea = Null
    /\ scriptReq = Null
    /\ brainstormReq = Null
    /\ error = ""
    /\ sb = StoryboardInit
    /\ imageReqs = << >>
    /\ nextId = 0
    /\ ev = Event("mount", "")
    /\ steps = 0
    /\ trip = [ pc |-> "idle", before |-> << >> ]
    /\ call = NoCall
    /\ deleted = { }

appVars == << apiKey, loaded, view, wizardVars, scriptVars, brainVars, error, sb,
             imageReqs, steps, call >>

\* create(draft): the store part of handleCreateProject
StoreCreate(name, idea) ==
    /\ trip.pc \in { "idle", "done" }
    /\ nextId < MaxIds
    /\ SetStore(createProject(Store, newProject(uuid(nextId + 1), name, idea, Null)))
    /\ nextId' = nextId + 1
    /\ trip' = [ pc |-> "created", before |-> projects ]
    /\ ev' = Event("create", uuid(nextId + 1))
    /\ UNCHANGED << appVars, deleted >>

\* delete(id) of the project just created
StoreDelete ==
    /\ trip.pc = "created"
    /\ SetStore(deleteProject(Store, ev.id))
    /\ trip' = [ trip EXCEPT !.pc = "deleted" ]
    /\ ev' = Event("delete", ev.id)
    /\ deleted' = deleted \cup { ev.id }
    /\ UNCHANGED << appVars, nextId >>

\* update(project) with the project created and deleted before
StoreUpdate(name, idea) ==
    /\ trip.pc = "deleted"
    /\ SetStore(updateProject(projects, storage,
                              newProject(ev.id, name, idea, Null)))
    /\ trip' = [ trip EXCEPT !.pc = "done" ]
    /\ ev' = Event("update", ev.id)
    /\ UNCHANGED << appVars, nextId, deleted >>

\* update(project) with any project
StoreUpdateAny(p) ==
    /\ trip.pc \in { "idle", "done" }
    /\ SetStore(updateProject(projects, storage, p))
    /\ trip' = [ pc |-> "idle", before |-> << >> ]
    /\ ev' = Event("update", p.id)
    /\ UNCHANGED << appVars, nextId, deleted >>

StoreNext ==
    \/ \E n \in Names, t \in StoryIdeas : StoreCreate(n, t)
    \/ StoreDelete
    \/ \E n \in Names, t \in StoryIdeas : StoreUpdate(n, t)
    \/ \E p \in UpdateArgs : StoreUpdateAny(p)

StoreSpec == StoreInit /\ [][StoreNext]_vars

\* ---- the list operations on their own -----------------------------------
\* Character lists an operation may be given: every list of at most
\* MaxListLen of these records, repeated identifiers included
FnChars == { Char("char_bella", "Bella"), Char("char_mia", "Mia"), Char("c1", "Ann") }
FnCharLists == UNION { [ 1..n -> FnChars ] : n \in 0..MaxListLen }
\* identifiers an operation may be asked for: present ones and an absent one
FnCharIds == { "char_bella", "char_mia", "c1", "c9" }

\* Scene lists an operation may be given: at most MaxListLen scenes with
\* identifiers s1, s2, ..., any of these scene numbers in any order (the
\* capability's numbers are not validated) and any of these image states
FnSceneNumbers == { 1, 2, 10, 999 }
FnImageData == { "AAAA", "" }
FnUrls == { NoImage } \cup { generateScenePreview(d) : d \in FnImageData }
FnScene(i, n, url) ==
    [ id |-> "s" \o ToString(i), sceneNumber |-> n, script |-> "line",
      visualPrompt |-> "p0", duration |-> "3s", generatedImageUrl |-> url ]
FnSceneLists ==
    UNION { { [ i \in 1..k |-> FnScene(i, f[i][1], f[i][2]) ] :
                f \in [ 1..k -> FnSceneNumbers \X FnUrls ] } : k \in 0..MaxListLen }
FnSceneIds == { "s" \o ToString(i) : i \in 1..MaxListLen } \cup { "s9" }

\* Scene records a response may hold: as the schema asks, or with an
\* identifier of the capability's own; and the responses built from them
FnRawScenes ==
    { RawScene(1), RawScene(2) }
        \cup { [ id |-> i, sceneNumber |-> 1, script |-> "line", visualPrompt |-> "p1",
                 duration |-> "5s" ] : i \in { "s0", "1" } }
FnResponses == UNION { [ 1..n -> FnRawScenes ] : n \in 0..MaxListLen }

FnInit ==
    /\ call = NoCall
    /\ deleted = { }
    /\ projects = << >>
    /\ storage = Null
    /\ apiKey = TRUE
    /\ loaded = TRUE
    /\ currentProject = Null
    /\ view = "dashboard"
    /\ newProjectName = ""
    /\ storyIdea = ""
    /\ customCharacters = Null
    /\ isGenerating = FALSE
    /\ isBrainstorming = FALSE
    /\ recommendedIdea = Null
    /\ scriptReq = Null
    /\ brainstormReq = Null
    /\ error = ""
    /\ sb = StoryboardInit
    /\ imageReqs = << >>
    /\ nextId = 0
    /\ ev = Event("mount", "")
    /\ steps = 0
    /\ trip = [ pc |-> "idle", before |-> << >> ]

\* what a list operation leaves alone; each run applies one operation once
fnFrame == << storeVars, apiKey, loaded, view, wizardVars, scriptVars, brainVars,
             error, sb, imageReqs, steps, nextId, ev, trip, deleted >>

\* the list handleImportJson hands to onUpdate for characters L and a parsed
\* text whose 'characters' array is A
ImportCall(L, A) ==
    /\ call = NoCall
    /\ call' = [ op |-> "importCharacters", list |-> L, added |-> A,
                 result |-> importCharacters(L, [ characters |-> A ]) ]
    /\ UNCHANGED fnFrame

\* the list removeCharacter(id) hands to onUpdate
RemoveCall(L, id) ==
    /\ call = NoCall
    /\ call' = [ op |-> "removeCharacter", list |-> L, id |-> id,
                 result |-> removeCharacterList(L, id) ]
    /\ UNCHANGED fnFrame

\* the scene list handleSavePrompt(sceneId) hands to onUpdateProject
EditPromptCall(scenes, id, text) ==
    /\ call = NoCall
    /\ call' = [ op |-> "editScenePrompt", list |-> scenes, id |-> id, text |-> text,
                 result |-> editScenePrompt(scenes, id, text) ]
    /\ UNCHANGED fnFrame

\* the scene list handleGenerateImage hands to onUpdateProject on success
SetImageCall(scenes, id, data) ==
    /\ call = NoCall
    /\ call' = [ op |-> "setSceneImage", list |-> scenes, id |-> id,
                 url |-> generateScenePreview(data),
                 result |-> setSceneImage(scenes, id, generateScenePreview(data)) ]
    /\ UNCHANGED fnFrame

\* the archive handleDownloadAssets builds for a project with these scenes
ExportCall(scenes) ==
    /\ call = NoCall
    /\ scenes # << >>
    /\ call' = [ op |-> "exportAssets", list |-> scenes,
                 result |-> exportAssets([ StoredProject EXCEPT !.scenes = scenes ]) ]
    /\ UNCHANGED fnFrame

\* generateStoryScenes returns for a response, n identifiers issued before
ScenesCall(parsed, n) ==
    /\ call = NoCall
    /\ call' = [ op |-> "generateStoryScenes", list |-> parsed, issued |-> n,
                 result |-> generateStoryScenes(parsed, n) ]
    /\ UNCHANGED fnFrame

FnNext ==
    \/ \E L \in FnCharLists, A \in FnCharLists : ImportCall(L, A)
    \/ \E L \in FnCharLists, id \in FnCharIds : RemoveCall(L, id)
    \/ \E scenes \in FnSceneLists, id \in FnSceneIds, text \in { "p0", "p1" } :
          EditPromptCall(scenes, id, text)
    \/ \E scenes \in FnSceneLists, id \in FnSceneIds, data \in { "AAAA", "BBBB" } :
          SetImageCall(scenes, id, data)
    \/ \E scenes \in FnSceneLists : ExportCall(scenes)
    \/ \E parsed \in FnResponses, n \in 0..1 : ScenesCall(parsed, n)

FnSpec == FnInit /\ [][FnNext]_vars

\* ---- claims -------------------------------------------------------------
Range(seq) == { seq[i] : i \in DOMAIN seq }

\* C1: handleCreateProject yields the new project followed by the previous
\* list in unchanged order; the new identifier occurs nowhere in the previous
\* list, the new project has no scenes, it is the active selection and the
\* view is the workspace.
C1_CreatePrepends ==
    [][ ev'.op = "create" =>
          /\ Len(projects') = Len(projects) + 1
          /\ \A i \in DOMAIN projects : projects'[i + 1] = projects[i]
          /\ projects'[1].id = ev'.id
          /\ ev'.id \notin Ids(projects)
          /\ projects'[1].scenes = << >>
          /\ currentProject' = projects'[1]
          /\ view' = "workspace" ]_vars

\* a project was created in front of a non-empty list
C1_Witness ==
    /\ ev.op = "create"
    /\ Len(projects) >= 2
    /\ currentProject = projects[1]

\* C2: updateProject(p) replaces the entry with p's identifier in place and
\* leaves every other entry where it was; with no such entry the list and the
\* snapshot read back from storage are what they were.
C2_UpdateInPlace ==
    [][ ev'.op = "update" =>
          /\ Len(projects') = Len(projects)
          /\ \A i \in DOMAIN projects :
                /\ projects[i].id = ev'.id => projects'[i] = currentProject'
                /\ projects[i].id # ev'.id => projects'[i] = projects[i]
          /\ currentProject'.id = ev'.id
          /\ ev'.id \notin Ids(projects) =>
                /\ projects' = projects
                /\ loadProjects(storage') = loadProjects(storage) ]_vars

\* an update replaced the second of two entries
C2_Witness ==
    /\ ev.op = "update"
    /\ Len(projects) = 2
    /\ projects[2] = currentProject
    /\ projects[1] # currentProject

\* the entries of ps other than id keep their relative order in qs
KeptInOrder(ps, qs, id) ==
    LET kept == { i \in DOMAIN ps : ps[i].id # id }
        rank(i) == Cardinality({ k \in kept : k <= i })
    IN  /\ Len(qs) = Cardinality(kept)
        /\ \A i \in kept : qs[rank(i)] = ps[i]

\* C3: a confirmed handleDeleteProject(id) removes the entries with that
\* identifier and keeps the others in order; the selection is cleared (null,
\* dashboard) when it was the deleted project and untouched otherwise; a
\* declined confirmation changes nothing.
C3_DeleteExact ==
    [][ /\ ev'.op = "delete" =>
             /\ KeptInOrder(projects, projects', ev'.id)
             /\ IF currentProject # Null /\ currentProject.id = ev'.id
                THEN currentProject' = Null /\ view' = "dashboard"
                ELSE currentProject' = currentProject /\ view' = view
        /\ ev'.op = "deleteDeclined" =>
             UNCHANGED << projects, storage, currentProject, view >> ]_vars

\* the active selection was deleted from a list of two
C3_Witness ==
    /\ ev.op = "delete"
    /\ Len(projects) = 1
    /\ currentProject = Null
    /\ nextId > 0

\* C4: once the startup load has run, the snapshot read back from the
\* storage slot is the in-memory project list.
C4_SnapshotMirrorsList == loaded => loadProjects(storage) = projects

\* a generation response has been written to the store
C4_Witness ==
    /\ loaded
    /\ ev.op = "scriptDone"
    /\ storage # Null
    /\ currentProject # Null
    /\ currentProject.scenes # << >>
    /\ currentProject \in Range(projects)

\* C10: after create(P), delete of the created project and update with that
\* project, the store lists the same entries as before the three operations.
C10_RoundTrip ==
    trip.pc = "done" =>
        /\ Ids(projects) = Ids(trip.before)
        /\ Range(projects) = Range(trip.before)
        /\ Len(projects) = Len(trip.before)

\* a round trip was completed on a store that held projects
C10_Witness ==
    /\ trip.pc = "done"
    /\ Len(trip.before) = 2
    /\ ev.op = "update"

\* the project a request in flight belongs to
ScriptTarget == scriptReq.currentProject.id
ImageTargets(scene) ==
    { imageReqs[k].project.id : k \in { j \in DOMAIN imageReqs : imageReqs[j].scene = scene } }

\* what the store held just before a response is still held after it: every
\* project keeps its story idea and characters, no other project appears or
\* disappears
Merged(targets) ==
    /\ \A i \in DOMAIN projects :
          \E j \in DOMAIN projects' :
              /\ projects'[j].id = projects[i].id
              /\ projects'[j].storyIdea = projects[i].storyIdea
              /\ projects'[j].characters = projects[i].characters
              /\ projects[i].id \notin targets => projects'[j] = projects[i]
    /\ Ids(projects') \ targets = Ids(projects) \ targets

\* C5: a generation response is merged into the project state that exists
\* when it arrives, so that what was changed in the store while the request
\* was in flight is still there afterwards.
C5_MergedAtCompletion ==
    [][ /\ ev'.op = "scriptDone" => Merged({ ScriptTarget })
        /\ ev'.op = "imageDone" => Merged(ImageTargets(ev'.id)) ]_vars

\* the scenes with an image-generation call in flight
ImageCalls(scene) ==
    { k \in DOMAIN imageReqs : imageReqs[k].scene = scene /\ imageReqs[k].sent }

\* C6: no scene has two image-generation calls in flight, and a script or
\* brainstorm call is in flight only under its pending flag.
C6_OneCallPerTarget ==
    /\ \A k \in DOMAIN imageReqs : Cardinality(ImageCalls(imageReqs[k].scene)) <= 1
    /\ scriptReq # Null => isGenerating
    /\ brainstormReq # Null => isBrainstorming

\* C7: within every project the character identifiers are pairwise distinct
\* and the scene identifiers are pairwise distinct.
C7_UniqueIds ==
    \A i \in DOMAIN projects :
        /\ UniqueIds(projects[i].characters)
        /\ UniqueIds(projects[i].scenes)

\* C8: a generation that fails, and the start of one, leave the project
\* list, the persisted snapshot and the active project as they were.
C8_FailureChangesNothing ==
    [][ ev'.op \in { "scriptFailed", "imageFailed", "brainstormFailed",
                     "scriptStart", "imageStart", "brainstormStart" }
          => UNCHANGED << projects, storage, currentProject >> ]_vars

\* a script generation failed for a project that has scenes
C8_Witness ==
    /\ ev.op = "scriptFailed"
    /\ currentProject # Null
    /\ currentProject.scenes # << >>
    /\ currentProject \in Range(projects)

\* C9: every pending flag that is set is cleared again once the call it
\* guards has returned, whether the call succeeded or failed.
C9_FlagsCleared ==
    /\ isGenerating ~> ~isGenerating
    /\ isBrainstorming ~> ~isBrainstorming
    /\ \A s \in SceneIds : (s \in sb.loadingImages) ~> (s \notin sb.loadingImages)
    /\ sb.isZipping ~> ~sb.isZipping

\* a failed script generation has left the flag cleared, so that the button
\* is enabled again
C9_Witness ==
    /\ ev.op = "scriptFailed"
    /\ ~isGenerating
    /\ view = "workspace"
    /\ currentProject # Null

\* C11: a successful import yields the existing characters followed by the
\* imported ones, each in its order: the length is the sum of the lengths,
\* and no existing character is removed, replaced or moved.
C11_ImportAppends ==
    call.op = "importCharacters" =>
        /\ Len(call.result) = Len(call.list) + Len(call.added)
        /\ \A i \in 1..Len(call.list) : call.result[i] = call.list[i]
        /\ \A j \in 1..Len(call.added) :
              call.result[Len(call.list) + j] = call.added[j]

\* two characters were imported into a list of two, one identifier repeated
C11_Witness ==
    /\ call.op = "importCharacters"
    /\ Len(call.list) = 2
    /\ Len(call.added) = 2
    /\ call.added[1] # call.added[2]
    /\ call.added[1] = call.list[2]
    /\ Len(call.result) = 4

\* C12: an import whose text does not parse reports the syntax error, an
\* import whose parsed value has no 'characters' array reports the
\* missing-array error, and both leave the project list, the persisted
\* snapshot and the active project (its characters) as they were.
C12_ImportRejected ==
    [][ /\ ev'.op \in { "importSyntaxError", "importNoArray", "importTypeError" }
             => UNCHANGED << projects, storage, currentProject >>
        /\ ev'.op = "importSyntaxError" => error' = "Invalid JSON syntax."
        /\ ev'.op \in { "importNoArray", "importTypeError" }
             => error' = "Invalid JSON format: missing 'characters' array." ]_vars

\* the elements of a list other than those with the given identifier are
\* where and what they were
OthersUntouched(before, after, id) ==
    /\ Len(after) = Len(before)
    /\ \A i \in DOMAIN before : before[i].id # id => after[i] = before[i]

\* C13: removeCharacter, the prompt edit and the image set return the input
\* list, same elements in the same order, when no element has the given
\* identifier; when one has, only the matching element is removed or changed,
\* and only in the field the operation is about.
C13_AbsentIdNoOp ==
    /\ call.op \in { "removeCharacter", "editScenePrompt", "setSceneImage" }
         => (call.id \notin Ids(call.list) => call.result = call.list)
    /\ call.op = "removeCharacter" => KeptInOrder(call.list, call.result, call.id)
    /\ call.op = "editScenePrompt" =>
         /\ OthersUntouched(call.list, call.result, call.id)
         /\ \A i \in DOMAIN call.list : call.list[i].id = call.id =>
               call.result[i] = [ call.list[i] EXCEPT !.visualPrompt = call.text ]
    /\ call.op = "setSceneImage" =>
         /\ OthersUntouched(call.list, call.result, call.id)
         /\ \A i \in DOMAIN call.list : call.list[i].id = call.id =>
               call.result[i] = [ call.list[i] EXCEPT !.generatedImageUrl = call.url ]

\* a character was asked to be removed from a list of two that does not hold it
C13_Witness ==
    /\ call.op = "removeCharacter"
    /\ Len(call.list) = 2
    /\ call.id \notin Ids(call.list)
    /\ call.result = call.list

\* the manifest of an exported archive: its scene blocks
Manifest == call.result["script_and_prompts.txt"].text.scenes
\* the image entries of an exported archive
ImageEntries == DOMAIN call.result \ { "script_and_prompts.txt" }
\* the scenes of an exported project that have generated image data
WithImage == { i \in DOMAIN call.list : call.list[i].generatedImageUrl # NoImage }

\* C14: the manifest lists the scenes in ascending scene-number order,
\* whatever their order in the project's list.
C14_ManifestSorted ==
    call.op = "exportAssets" =>
        \A i, j \in DOMAIN Manifest :
            i < j => Manifest[i].sceneNumber <= Manifest[j].sceneNumber

\* C15: when all scene numbers lie in 1..999, the image filenames of the
\* project's scenes are pairwise distinct and are "scene_" followed by the
\* number padded to exactly three digits followed by ".png".
C15_FilenamesUnique ==
    (/\ call.op = "exportAssets"
     /\ \A i \in DOMAIN call.list : call.list[i].sceneNumber \in 1..999)
    => /\ \A i, j \in DOMAIN call.list :
             i # j => imageName(call.list[i]) # imageName(call.list[j])
       /\ \A i \in DOMAIN call.list :
             /\ Len(imageName(call.list[i])) = 13
             /\ \E a, b, c \in 0..9 :
                   /\ 100 * a + 10 * b + c = call.list[i].sceneNumber
                   /\ imageName(call.list[i])
                        = "scene_" \o ToString(a) \o ToString(b) \o ToString(c) \o ".png"

\* C16: the archive of a project of which k scenes have image data holds
\* one manifest entry and k image entries; the manifest names the image file
\* of each scene that has image data and the placeholder for each that has
\* none, and every file the manifest names is an entry of the archive.
C16_ArchiveEntries ==
    call.op = "exportAssets" =>
        /\ "script_and_prompts.txt" \in DOMAIN call.result
        /\ Cardinality(ImageEntries) = Cardinality(WithImage)
        /\ \A i \in DOMAIN call.list :
              Manifest[i].imageFile =
                  IF i \in WithImage THEN imageName(call.list[i])
                  ELSE "[Not Generated Yet]"
        /\ \A i \in WithImage : Manifest[i].imageFile \in ImageEntries

\* C17: without a configured credential no request of generateStoryScenes,
\* generateScenePreview or generateProjectIdea has been sent to the
\* generation capability: each pending operation has failed in getClient.
C17_NoCallWithoutKey ==
    ~apiKey =>
        /\ scriptReq # Null => ~scriptReq.sent
        /\ brainstormReq # Null => ~brainstormReq.sent
        /\ \A k \in DOMAIN imageReqs : ~imageReqs[k].sent

\* without a credential, a script generation and an image generation have
\* been started and are about to fail
C17_Witness ==
    /\ ~apiKey
    /\ scriptReq # Null
    /\ imageReqs # << >>
    /\ ev.op \in { "scriptStart", "imageStart" }

\* the scenes of the listed projects that carry a generated image
ScenesWithImage(ps) ==
    UNION { { << ps[i].id, ps[i].scenes[j].id >> :
                j \in { k \in DOMAIN ps[i].scenes :
                          ps[i].scenes[k].generatedImageUrl # NoImage } } :
            i \in DOMAIN ps }

\* C18: when the responses of two image generations started together for
\* two scenes of a project are applied, the later one keeps the image the
\* earlier one set: after it both scenes carry their image, in the project
\* list and in the persisted snapshot.
C18_BothImagesKept ==
    [][ ev'.op = "imageDone" =>
          \A t \in ScenesWithImage(projects) :
              t[2] # ev'.id =>
                  /\ t \in ScenesWithImage(projects')
                  /\ t \in ScenesWithImage(loadProjects(storage')) ]_vars

\* C19: generateStoryScenes returns as many records as the response holds,
\* in its order, each with the response's scene number, script, visual prompt
\* and duration; the identifiers of the result are pairwise distinct and are
\* the assigned ones, not those the response may have carried.
C19_FreshSceneIds ==
    call.op = "generateStoryScenes" =>
        /\ Len(call.result) = Len(call.list)
        /\ \A i \in DOMAIN call.list :
              /\ call.result[i].sceneNumber = call.list[i].sceneNumber
              /\ call.result[i].script = call.list[i].script
              /\ call.result[i].visualPrompt = call.list[i].visualPrompt
              /\ call.result[i].duration = call.list[i].duration
              /\ call.result[i].id = uuid(call.issued + i)
        /\ UniqueIds(call.result)

\* a response of two records that carry the same identifier of their own
C19_Witness ==
    /\ call.op = "generateStoryScenes"
    /\ Len(call.list) = 2
    /\ \A i \in 1..2 : "id" \in DOMAIN call.list[i] /\ call.list[i].id = "s0"
    /\ call.result[1].id # call.result[2].id
    /\ "s0" \notin Ids(call.result)

\* C20: a project deleted by a confirmed handleDeleteProject is never again
\* in the project list nor in the persisted snapshot, whatever request for it
\* was in flight when it was deleted.
C20_DeletedStaysDeleted ==
    \A id \in deleted :
        /\ id \notin Ids(projects)
        /\ id \notin Ids(loadProjects(storage))

\* C21: the response of a script or image generation leaves the active
\* selection as it is: a selection cleared while the request was in flight
\* is still null afterwards, and another project selected meanwhile is still
\* the one designated.
C21_SelectionKept ==
    [][ ev'.op \in { "scriptDone", "imageDone" } =>
          IF currentProject = Null THEN currentProject' = Null
          ELSE /\ currentProject' # Null
               /\ currentProject'.id = currentProject.id ]_vars

\* C22: a non-null currentProject has an entry of its identifier in the
\* project list, and that entry equals it; the workspace view is shown only
\* with a non-null currentProject.
C22_SelectionInList ==
    /\ currentProject # Null =>
          \E i \in DOMAIN projects :
              /\ projects[i].id = currentProject.id
              /\ projects[i] = currentProject
    /\ view = "workspace" => currentProject # Null

\* a generation response arrived after its project was deleted and made it
\* the current project again
C22_Witness ==
    /\ ev.op \in { "scriptDone", "imageDone" }
    /\ deleted # { }
    /\ currentProject # Null
    /\ currentProject.id \in deleted
    /\ view = "dashboard"

====
